---- MODULE Spec2Model ----
(***************************************************************************)
(* freeval: a declarative field validator.  A record is viewed as a        *)
(* serde_json object; every declared rule of every field present in the    *)
(* object is dispatched to its checker (validators/mod.rs) and the failing *)
(* bindings are folded into a per-field error list (lib.rs).               *)
(***************************************************************************)
EXTENDS Integers, Sequences, FiniteSets, TLC

VARIABLES
    pc,            \* "build" | "ready" | "done" ("idle": no FreeVal): life cycle of one FreeVal
    declarations,  \* FreeVal.declarations: Seq of [field, rules]
    data,          \* FreeVal.data viewed through serde_json::to_value
    result_errs,   \* validate's local result_errs when validate left its loops
    result,        \* "none" | "Ok" | "Err" | "panic": how validate ended
    evals,         \* the bindings validate evaluated, in evaluation order
    cpc,           \* "input" | "called" ("idle": no call): one direct checker call
    crule,         \* the rule of the direct checker call
    cvalue,        \* the value of the direct checker call
    cres           \* the InnerValidationResult of the direct checker call

vars == <<pc, declarations, data, result_errs, result, evals, cpc, crule, cvalue, cres>>

(***************************************************************************)
(* Bounds of the model.                                                    *)
(***************************************************************************)
MaxStrLen == 3      \* characters of a string handed to a checker directly
MaxNum == 2         \* integers and rule parameters range over -MaxNum..MaxNum
MaxBindings == 2    \* rule bindings over all declarations of one FreeVal

(***************************************************************************)
(* Characters.  A string is a sequence of characters; each character has   *)
(* the std::char properties password() reads and a UTF-8 width, which is   *)
(* what String::len counts.                                                *)
(***************************************************************************)
\* "U+00E9" is the one character e-acute: a lowercase letter outside ASCII.
Alphabet == {"A", "a", "1", "@", ".", " ", "U+00E9"}

is_whitespace(c) == c = " "
is_lowercase(c) == c \in {"a", "U+00E9"}
is_uppercase(c) == c = "A"
is_digit(c) == c = "1"
is_ascii_alphanumeric(c) == c \in {"A", "a", "1"}
len_utf8(c) == IF c = "U+00E9" THEN 2 ELSE 1

RECURSIVE StrLen(_)
StrLen(s) == IF s = <<>> THEN 0 ELSE len_utf8(Head(s)) + StrLen(Tail(s))

RECURSIVE Display(_)
Display(s) == IF s = <<>> THEN "" ELSE Head(s) \o Display(Tail(s))

(***************************************************************************)
(* serde_json::Value, restricted to the scalar leaves.                     *)
(***************************************************************************)
Null == [t |-> "null", b |-> FALSE, n |-> 0, s |-> <<>>]
BoolV(x) == [t |-> "bool", b |-> x, n |-> 0, s |-> <<>>]
IntV(x) == [t |-> "int", b |-> FALSE, n |-> x, s |-> <<>>]
StrV(x) == [t |-> "str", b |-> FALSE, n |-> 0, s |-> x]

(***************************************************************************)
(* ValidatorRule: the thirteen variants with their parameters.             *)
(***************************************************************************)
Rule(kind, n, min, max, sub) == [kind |-> kind, n |-> n, min |-> min, max |-> max, sub |-> sub]

ValidatorRule(nats, ints, subs) ==
    {Rule(k, n, 0, 0, <<>>) : k \in {"Length", "MaxLength", "MinLength", "Password"}, n \in nats}
    \cup {Rule(k, n, 0, 0, <<>>) : k \in {"Size", "MaxSize", "MinSize"}, n \in ints}
    \cup {Rule(k, 0, 0, 0, <<>>) : k \in {"Bool", "Required", "Email"}}
    \cup {Rule(k, 0, mn, mx, <<>>) : k \in {"LengthRange", "SizeRange"}, mn \in ints, mx \in ints}
    \cup {Rule("Contains", 0, 0, 0, sb) : sb \in subs}

(***************************************************************************)
(* validators/mod.rs                                                       *)
(***************************************************************************)
InnerValidationResult(status, err) == [panicked |-> FALSE, status |-> status, err |-> err]

\* extract_value's expect() on a failed deserialization: the thread panics.
Panic == [panicked |-> TRUE, status |-> FALSE, err |-> "failed to extract result"]

LengthType_to_string(length_type) ==
    CASE length_type = "Exact" -> "exactly"
      [] length_type = "Max" -> "maximum of"
      [] length_type = "Min" -> "minimum of"

RangeType_to_string(range_type) ==
    CASE range_type = "Size" -> "size"
      [] range_type = "Length" -> "length"

\* Max and Min compared the other way round.
check_len_swapped(rule, vlen, length_type) ==
    CASE length_type = "Max" -> rule <= vlen
      [] length_type = "Min" -> rule >= vlen
      [] length_type = "Exact" -> rule = vlen

check_len(rule, vlen, length_type) ==
    CASE length_type = "Max" -> rule >= vlen
      [] length_type = "Min" -> rule <= vlen
      [] length_type = "Exact" -> rule = vlen

\* serde_json::from_value::<T>(value).is_ok() for T in String, isize, bool.
extract_value(value, T) == value.t = T

length(field, rule, value, length_type) ==
    LET err == "'" \o field \o "' field must be " \o LengthType_to_string(length_type)
               \o " " \o ToString(rule) \o " characters."
    IN  IF value.t = "null" THEN InnerValidationResult(FALSE, err)
        ELSE IF ~extract_value(value, "str") THEN Panic
        ELSE InnerValidationResult(check_len(rule, StrLen(value.s), length_type), err)

size(field, rule, value, length_type) ==
    LET err == "'" \o field \o "' field must be " \o LengthType_to_string(length_type)
               \o " " \o ToString(rule) \o "."
    IN  IF value.t = "null" THEN InnerValidationResult(FALSE, err)
        ELSE IF ~extract_value(value, "int") THEN Panic
        ELSE InnerValidationResult(check_len(rule, value.n, length_type), err)

required(field, value) ==
    InnerValidationResult(value.t # "null", "'" \o field \o "' field cannot be null.")

check_bool(field, value) ==
    IF ~extract_value(value, "bool") THEN Panic
    ELSE InnerValidationResult(value.b, "'" \o field \o "' field's condition must be satified.")

any_char(s, P(_)) == \E i \in 1..Len(s) : P(s[i])

is_special_char(c) == ~is_ascii_alphanumeric(c)

password(field, value, len) ==
    LET err == "'" \o field \o "' field must contain at least one uppercase letter, one lowercase letter, one digit and one special character and must be at least "
               \o ToString(len) \o " chars long."
    IN  IF value.t = "null" THEN InnerValidationResult(FALSE, err)
        ELSE IF ~extract_value(value, "str") THEN Panic
        ELSE LET v == value.s
                 has_whitespace == any_char(v, is_whitespace)
                 has_lower == any_char(v, is_lowercase)
                 has_upper == any_char(v, is_uppercase)
                 has_digit == any_char(v, is_digit)
                 has_special_char == any_char(v, is_special_char)
                 cond == ~has_whitespace /\ has_upper /\ has_lower /\ has_digit
                         /\ has_special_char /\ StrLen(v) >= len
             IN  InnerValidationResult(cond, err)

\* ^[A-Za-z0-9._%+-]+@[A-Za-z0-9.-]+\.[A-Za-z]{2,}$ over the model's alphabet
EmailLocal == {"A", "a", "1", "."}
EmailDomain == {"A", "a", "1", "."}
EmailTld == {"A", "a"}

is_match(v) ==
    \E at \in 1..Len(v) : \E dot \in 1..Len(v) :
        /\ 1 < at /\ at + 1 < dot /\ dot + 2 <= Len(v)
        /\ v[at] = "@" /\ v[dot] = "."
        /\ \A i \in 1..(at - 1) : v[i] \in EmailLocal
        /\ \A i \in (at + 1)..(dot - 1) : v[i] \in EmailDomain
        /\ \A i \in (dot + 1)..Len(v) : v[i] \in EmailTld

email(field, value) ==
    LET err == "'" \o field \o "' field must be a valid email address"
    IN  IF value.t = "null" THEN InnerValidationResult(FALSE, err)
        ELSE IF ~extract_value(value, "str") THEN Panic
        ELSE InnerValidationResult(is_match(value.s), err)

\* The range taken as inclusive of both ends.
range_inclusive(field, value, min, max, range_type) ==
    LET err == field \o "'s " \o RangeType_to_string(range_type) \o " must be between "
               \o ToString(min) \o " and " \o ToString(max) \o "."
    IN  IF value.t = "null" THEN InnerValidationResult(FALSE, err)
        ELSE IF range_type = "Length" /\ ~extract_value(value, "str") THEN Panic
        ELSE IF range_type = "Size" /\ ~extract_value(value, "int") THEN Panic
        ELSE LET len == IF range_type = "Length" THEN StrLen(value.s) ELSE value.n
             IN  InnerValidationResult(len >= min /\ len <= max, err)

range(field, value, min, max, range_type) ==
    LET err == field \o "'s " \o RangeType_to_string(range_type) \o " must be between "
               \o ToString(min) \o " and " \o ToString(max) \o "."
    IN  IF value.t = "null" THEN InnerValidationResult(FALSE, err)
        ELSE IF range_type = "Length" /\ ~extract_value(value, "str") THEN Panic
        ELSE IF range_type = "Size" /\ ~extract_value(value, "int") THEN Panic
        ELSE LET len == IF range_type = "Length" THEN StrLen(value.s) ELSE value.n
             IN  InnerValidationResult(len > min /\ len < max, err)

str_contains(v, pat) ==
    \E i \in 0..(Len(v) - Len(pat)) : SubSeq(v, i + 1, i + Len(pat)) = pat

contains(field, rule, value) ==
    LET err == "'" \o field \o "' field must contain  '" \o Display(rule) \o "'. Please check again."
    IN  IF value.t = "null" THEN InnerValidationResult(FALSE, err)
        ELSE IF ~extract_value(value, "str") THEN Panic
        ELSE InnerValidationResult(str_contains(value.s, rule), err)

(***************************************************************************)
(* lib.rs: the match of FreeVal::validate that selects the checker.        *)
(***************************************************************************)
Dispatch(rule, key, val) ==
    CASE rule.kind = "Length" -> length(key, rule.n, val, "Exact")
      [] rule.kind = "MaxLength" -> length(key, rule.n, val, "Max")
      [] rule.kind = "MinLength" -> length(key, rule.n, val, "Min")
      [] rule.kind = "Size" -> size(key, rule.n, val, "Exact")
      [] rule.kind = "MaxSize" -> size(key, rule.n, val, "Max")
      [] rule.kind = "MinSize" -> size(key, rule.n, val, "Min")
      [] rule.kind = "Bool" -> check_bool(key, val)
      [] rule.kind = "Password" -> password(key, val, rule.n)
      [] rule.kind = "Required" -> required(key, val)
      [] rule.kind = "Email" -> email(key, val)
      [] rule.kind = "LengthRange" -> range(key, val, rule.min, rule.max, "Length")
      [] rule.kind = "SizeRange" -> range(key, val, rule.min, rule.max, "Size")
      [] rule.kind = "Contains" -> contains(key, rule.sub, val)

(***************************************************************************)
(* lib.rs: rule declarations.                                              *)
(***************************************************************************)
None == [some |-> FALSE, v |-> ""]
Some(x) == [some |-> TRUE, v |-> x]

create_err(error) == IF error.some THEN Some(error.v) ELSE None

RuleType(rule, error) == [rule |-> rule, error |-> error]

RuleDeclaration_new(field, rule, error) ==
    [field |-> field, rules |-> <<RuleType(rule, create_err(error))>>]

RuleDeclaration_insert(decl, rule, error) ==
    [decl EXCEPT !.rules = Append(@, RuleType(rule, create_err(error)))]

(***************************************************************************)
(* lib.rs: FreeVal::validate.                                              *)
(***************************************************************************)
\* An empty HashMap<String, Vec<String>>.
NoErrors == [f \in {} |-> <<>>]

\* The custom message ignored: the default message is always the one pushed.
add_error_default(defined_err, default_err, error_list) ==
    Append(error_list, default_err)

add_error(defined_err, default_err, error_list) ==
    LET error == IF defined_err.some THEN defined_err.v ELSE default_err
    IN  Append(error_list, error)

\* serde_json::to_value(self.data) matches Ok(Value::Object(map)).
is_object(d) == d.isObject

\* The order in which `for (key, value) in &map` visits the keys.
FieldOrder == <<"a", "b">>
Keys(map) == SelectSeq(FieldOrder, LAMBDA f : f \in DOMAIN map)

\* A declared field that is no key of the map visited as if it held null.
map_iter_declared(map) ==
    [i \in 1..Len(FieldOrder) |->
        [key |-> FieldOrder[i],
         value |-> IF FieldOrder[i] \in DOMAIN map THEN map[FieldOrder[i]] ELSE Null]]

\* The (key, value) pairs `&map` yields.
map_iter(map) ==
    [i \in 1..Len(Keys(map)) |-> [key |-> Keys(map)[i], value |-> map[Keys(map)[i]]]]

\* The body of the innermost loop: one binding of declaration di on (key, value).
\* st = [errs, panicked, evals] is validate's state while it runs.
EvalRule(st, key, value, di, ri, rule_type) ==
    LET inner == Dispatch(rule_type.rule, key, value)
        seen == Append(st.evals, [key |-> key, di |-> di, ri |-> ri, res |-> inner])
    IN  IF inner.panicked
        THEN [st EXCEPT !.panicked = TRUE, !.evals = seen]
        ELSE IF ~inner.status
        THEN LET error_list == IF key \in DOMAIN st.errs THEN st.errs[key] ELSE <<>>
                 errors == add_error(rule_type.error, inner.err, error_list)
             IN  [st EXCEPT !.errs = (key :> errors) @@ st.errs, !.evals = seen]
        ELSE [st EXCEPT !.evals = seen]

RECURSIVE RulesLoop(_, _, _, _, _, _)
RulesLoop(st, key, value, di, rules, ri) ==
    IF st.panicked \/ ri > Len(rules) THEN st
    ELSE RulesLoop(EvalRule(st, key, value, di, ri, rules[ri]), key, value, di, rules, ri + 1)

decl_matches(decl, key) == decl.field = key

\* The loop over the declarations left at the first one that matches the key.
RECURSIVE DeclsLoop_first_match(_, _, _, _, _)
DeclsLoop_first_match(st, key, value, decls, di) ==
    IF st.panicked \/ di > Len(decls) THEN st
    ELSE IF decl_matches(decls[di], key)
    THEN RulesLoop(st, key, value, di, decls[di].rules, 1)
    ELSE DeclsLoop_first_match(st, key, value, decls, di + 1)

RECURSIVE DeclsLoop(_, _, _, _, _)
DeclsLoop(st, key, value, decls, di) ==
    IF st.panicked \/ di > Len(decls) THEN st
    ELSE IF decl_matches(decls[di], key)
    THEN DeclsLoop(RulesLoop(st, key, value, di, decls[di].rules, 1), key, value, decls, di + 1)
    ELSE DeclsLoop(st, key, value, decls, di + 1)

RECURSIVE KeysLoop(_, _, _, _)
KeysLoop(st, entries, decls, ki) ==
    IF st.panicked \/ ki > Len(entries) THEN st
    ELSE KeysLoop(DeclsLoop(st, entries[ki].key, entries[ki].value, decls, 1), entries, decls, ki + 1)

validate(d, decls) ==
    LET st0 == [errs |-> NoErrors, panicked |-> FALSE, evals |-> <<>>]
        st == IF is_object(d) THEN KeysLoop(st0, map_iter(d.map), decls, 1) ELSE st0
    IN  [errs |-> st.errs, evals |-> st.evals,
         result |-> IF st.panicked THEN "panic"
                    ELSE IF DOMAIN st.errs # {} THEN "Err" ELSE "Ok"]

(***************************************************************************)
(* Inputs of the model.                                                    *)
(***************************************************************************)
Fields == {"a", "b"}

\* Values a field of the record may hold.
DataValues == {Null, BoolV(TRUE), BoolV(FALSE), IntV(1), StrV(<<"a">>)}

\* Records whose view is a JSON object (any subset of Fields present), and
\* one whose view is not an object (a bare scalar or a sequence).
NotAnObject == [isObject |-> FALSE, map |-> NoErrors]
Objects ==
    UNION {{[isObject |-> TRUE, map |-> m] : m \in [present -> DataValues]} : present \in SUBSET Fields}
Records == Objects \cup {NotAnObject}

\* The bindings a declaration is built from: one rule for every checker
\* function, without a custom error message, and two of them with one.
RuleMenu ==
    { Rule("MinLength", 2, 0, 0, <<>>), Rule("Size", 2, 0, 0, <<>>),
      Rule("Bool", 0, 0, 0, <<>>), Rule("Password", 2, 0, 0, <<>>),
      Rule("Required", 0, 0, 0, <<>>), Rule("Email", 0, 0, 0, <<>>),
      Rule("SizeRange", 0, 0, 2, <<>>), Rule("Contains", 0, 0, 0, <<"a">>) }
BindingMenu ==
    {RuleType(r, None) : r \in RuleMenu}
    \cup {RuleType(r, Some("custom")) : r \in {Rule("MinLength", 2, 0, 0, <<>>), Rule("Required", 0, 0, 0, <<>>)}}

\* Strings handed to a checker directly: every string of at most MaxStrLen
\* characters, and a few longer ones (an address, a password, a sentence).
BoundedSeq(S, n) == UNION {[1..k -> S] : k \in 0..n}
LongStrings ==
    { <<"a", "@", "a", ".", "a", "a">>, <<"a", "@", "a", "a", "a", "a">>,
      <<"A", "a", "1", "@", "a">>, <<"A", "a", "1", "U+00E9", "U+00E9", "U+00E9">> }
CheckerStrings == BoundedSeq(Alphabet, MaxStrLen) \cup LongStrings
CheckerValues ==
    {Null, BoolV(TRUE), BoolV(FALSE)}
    \cup {IntV(n) : n \in -MaxNum..MaxNum}
    \cup {StrV(s) : s \in CheckerStrings}
CheckerRules ==
    ValidatorRule(0..(MaxStrLen + 1), -MaxNum..MaxNum, {<<>>, <<"a">>, <<"a", "1">>, <<"U+00E9">>})

(***************************************************************************)
(* The state machine: declarations are built, a FreeVal is constructed     *)
(* over a record, and validate runs once.                                  *)
(***************************************************************************)
RECURSIVE CountBindings(_)
CountBindings(decls) ==
    IF decls = <<>> THEN 0 ELSE Len(Head(decls).rules) + CountBindings(Tail(decls))

NoCall == InnerValidationResult(FALSE, "")

CheckerIdle ==
    /\ cpc = "idle"
    /\ crule = Rule("Required", 0, 0, 0, <<>>)
    /\ cvalue = Null
    /\ cres = NoCall

Init ==
    /\ pc = "build"
    /\ declarations = <<>>
    /\ data = NotAnObject
    /\ result_errs = NoErrors
    /\ result = "none"
    /\ evals = <<>>
    /\ CheckerIdle

\* declare_rule!(field, rule [, error]) pushed onto the vector of declarations
DeclareRule(field, rule, error) ==
    /\ pc = "build"
    /\ CountBindings(declarations) < MaxBindings
    /\ declarations' = Append(declarations, RuleDeclaration_new(field, rule, error))
    /\ UNCHANGED <<pc, data, result_errs, result, evals, cpc, crule, cvalue, cres>>

\* insert_rule!(decl, rule [, error]) on a declaration already made
InsertRule(i, rule, error) ==
    /\ pc = "build"
    /\ CountBindings(declarations) < MaxBindings
    /\ declarations' = [declarations EXCEPT ![i] = RuleDeclaration_insert(@, rule, error)]
    /\ UNCHANGED <<pc, data, result_errs, result, evals, cpc, crule, cvalue, cres>>

\* freeval!(&data, declarations)
FreeValNew(d) ==
    /\ pc = "build"
    /\ data' = d
    /\ pc' = "ready"
    /\ UNCHANGED <<declarations, result_errs, result, evals, cpc, crule, cvalue, cres>>

\* val.validate()
Validate ==
    /\ pc = "ready"
    /\ LET out == validate(data, declarations)
       IN  /\ result_errs' = out.errs
           /\ result' = out.result
           /\ evals' = out.evals
    /\ pc' = "done"
    /\ UNCHANGED <<declarations, data, cpc, crule, cvalue, cres>>

Next ==
    \/ \E f \in Fields, b \in BindingMenu : DeclareRule(f, b.rule, b.error)
    \/ \E i \in 1..Len(declarations), b \in BindingMenu : InsertRule(i, b.rule, b.error)
    \/ \E d \in Records : FreeValNew(d)
    \/ Validate

Spec == Init /\ [][Next]_vars

(***************************************************************************)
(* A checker called directly, as validators::tests::test_length does.      *)
(***************************************************************************)
ValidateIdle ==
    /\ pc = "idle"
    /\ declarations = <<>>
    /\ data = NotAnObject
    /\ result_errs = NoErrors
    /\ result = "none"
    /\ evals = <<>>

InitChecker ==
    /\ ValidateIdle
    /\ cpc = "input"
    /\ crule \in CheckerRules
    /\ cvalue \in CheckerValues
    /\ cres = NoCall

CallChecker ==
    /\ cpc = "input"
    /\ cres' = Dispatch(crule, "name", cvalue)
    /\ cpc' = "called"
    /\ UNCHANGED <<pc, declarations, data, result_errs, result, evals, crule, cvalue>>

NextChecker == CallChecker

SpecChecker == InitChecker /\ [][NextChecker]_vars

(***************************************************************************)
(* Vocabulary of the properties.                                           *)
(***************************************************************************)
ErrorsOf(f) == IF f \in DOMAIN result_errs THEN result_errs[f] ELSE <<>>

\* f is a key of the converted value tree
Present(f) == data.isObject /\ f \in DOMAIN data.map

\* the bindings declared for field f, over all declarations, in list order
RECURSIVE BindingsOf(_, _)
BindingsOf(decls, f) ==
    IF decls = <<>> THEN <<>>
    ELSE (IF Head(decls).field = f THEN Head(decls).rules ELSE <<>>) \o BindingsOf(Tail(decls), f)

\* the checker's answer for rule on the value the record holds under f
Verdict(f, rule) == Dispatch(rule, f, data.map[f])
Fails(f, b) == ~Verdict(f, b.rule).panicked /\ ~Verdict(f, b.rule).status

\* the one message a failing binding is to leave
MessageOf(f, b) == IF b.error.some THEN b.error.v ELSE Verdict(f, b.rule).err
Messages(f, bs) == [i \in 1..Len(bs) |-> MessageOf(f, bs[i])]

FailingOf(f) == SelectSeq(BindingsOf(declarations, f), LAMBDA b : Fails(f, b))

\* the bindings validate evaluated on field f, in evaluation order
EvaluatedOf(f) ==
    LET es == SelectSeq(evals, LAMBDA e : e.key = f)
    IN  [i \in 1..Len(es) |-> declarations[es[i].di].rules[es[i].ri]]

\* the shape of value a rule's checker deserializes
ExpectedShape(rule) ==
    CASE rule.kind \in {"Size", "MaxSize", "MinSize", "SizeRange"} -> "int"
      [] rule.kind = "Bool" -> "bool"
      [] rule.kind = "Required" -> "any"
      [] OTHER -> "str"
Mismatch(rule, value) ==
    rule.kind # "Required" /\ value.t # "null" /\ value.t # ExpectedShape(rule)

(***************************************************************************)
(* C1: validate never short-circuits: when it has ended, every binding of  *)
(* every declaration whose field is present was evaluated, and the field's *)
(* error list is exactly the messages of its failing bindings, one each,   *)
(* in binding declaration order.                                           *)
(***************************************************************************)
C1_AccumulatesAllErrors ==
    pc = "done" =>
        \A f \in Fields : Present(f) =>
            /\ \A di \in 1..Len(declarations) : declarations[di].field = f =>
                   \A ri \in 1..Len(declarations[di].rules) :
                       \E i \in 1..Len(evals) : evals[i].di = di /\ evals[i].ri = ri
            /\ ErrorsOf(f) = Messages(f, FailingOf(f))

IncompatibleType(f) == f \o " has an incompatible type for this rule"

(***************************************************************************)
(* C2: a non-null value of the wrong shape for a rule does not abort       *)
(* validate: the binding is reported as a failure, with the message        *)
(* "<field> has an incompatible type for this rule" unless a custom one    *)
(* was given, and validate returns the errors.                             *)
(***************************************************************************)
C2_CoercionFailureIsReported ==
    pc = "done" =>
        \A f \in Fields : Present(f) =>
            \A i \in 1..Len(BindingsOf(declarations, f)) :
                LET b == BindingsOf(declarations, f)[i]
                IN  Mismatch(b.rule, data.map[f]) =>
                        /\ result = "Err"
                        /\ \E k \in 1..Len(ErrorsOf(f)) :
                               ErrorsOf(f)[k] = (IF b.error.some THEN b.error.v ELSE IncompatibleType(f))

(***************************************************************************)
(* C4: every binding that validate evaluated and that failed left exactly  *)
(* one message in its field's error list: the custom message when the      *)
(* binding carries one, the checker's default message otherwise.           *)
(***************************************************************************)
C4_CustomMessageReplacesDefault ==
    pc = "done" =>
        \A f \in Fields :
            ErrorsOf(f) = Messages(f, SelectSeq(EvaluatedOf(f), LAMBDA b : Fails(f, b)))

\* Required with a custom message and MinLength without one both fail on null.
C4_Witness ==
    /\ pc = "done"
    /\ result = "Err"
    /\ ErrorsOf("a") = <<"custom", "'a' field must be minimum of 2 characters.">>

AnyFailed == \E f \in Fields : Present(f) /\ FailingOf(f) # <<>>

(***************************************************************************)
(* C5: validate returns Err if and only if at least one binding failed and *)
(* Ok exactly when none did; an Err map is not empty and holds no empty    *)
(* error list.                                                             *)
(***************************************************************************)
C5_ErrIffSomeBindingFailed ==
    pc = "done" =>
        /\ result = "Err" <=> AnyFailed
        /\ result = "Ok" <=> ~AnyFailed
        /\ result = "Err" =>
               /\ DOMAIN result_errs # {}
               /\ \A f \in DOMAIN result_errs : result_errs[f] # <<>>

(***************************************************************************)
(* C6: no error is ever recorded, and no binding evaluated, for a field    *)
(* that is not a key of the converted value tree, whatever is declared for *)
(* it; a record that is not an object has no binding evaluated and         *)
(* validates with success and no errors.                                   *)
(***************************************************************************)
C6_AbsentFieldSkipsValidation ==
    pc = "done" =>
        /\ \A f \in Fields : ~Present(f) =>
               /\ f \notin DOMAIN result_errs
               /\ \A i \in 1..Len(evals) : evals[i].key # f
        /\ ~data.isObject => evals = <<>> /\ result = "Ok" /\ result_errs = NoErrors

\* An object without "a", Required declared for "a", and errors for "b" only.
C6_Witness ==
    /\ pc = "done"
    /\ data.isObject
    /\ "a" \notin DOMAIN data.map
    /\ \E di \in 1..Len(declarations) :
           declarations[di].field = "a" /\ declarations[di].rules[1].rule.kind = "Required"
    /\ result = "Err"
    /\ DOMAIN result_errs = {"b"}

Merged(decls) ==
    LET firsts == SelectSeq([i \in 1..Len(decls) |-> i],
                            LAMBDA i : \A j \in 1..(i - 1) : decls[j].field # decls[i].field)
    IN  [k \in 1..Len(firsts) |->
            [field |-> decls[firsts[k]].field, rules |-> BindingsOf(decls, decls[firsts[k]].field)]]

(***************************************************************************)
(* C10: duplicate declarations of a field are merged additively: validate  *)
(* ends as it does on the list in which every field has one declaration,   *)
(* holding the concatenation of its declarations' bindings in list order.  *)
(***************************************************************************)
C10_DuplicateDeclarationsMerge ==
    pc = "done" =>
        LET merged == validate(data, Merged(declarations))
        IN  merged.result = result /\ merged.errs = result_errs

\* Two declarations of one field, each leaving its own message, in list order.
C10_Witness ==
    /\ pc = "done"
    /\ Len(declarations) = 2
    /\ declarations[1].field = declarations[2].field
    /\ Len(ErrorsOf(declarations[1].field)) = 2
    /\ ErrorsOf(declarations[1].field)[1] = MessageOf(declarations[1].field, declarations[1].rules[1])
    /\ ErrorsOf(declarations[1].field)[1] # ErrorsOf(declarations[1].field)[2]

(***************************************************************************)
(* Properties of the checkers, on one direct call.                         *)
(***************************************************************************)
Called(kinds, shape) == cpc = "called" /\ crule.kind \in kinds /\ cvalue.t = shape

\* a value of the shape the rule's checker deserializes
WellShaped(rule) ==
    CASE ExpectedShape(rule) = "int" -> IntV(0)
      [] ExpectedShape(rule) = "bool" -> BoolV(TRUE)
      [] OTHER -> StrV(<<>>)

(***************************************************************************)
(* C3: every rule other than Required, applied to null, returns a failing  *)
(* verdict carrying the rule's default message, and does not abort.        *)
(***************************************************************************)
C3_NullFailsEveryRule ==
    (cpc = "called" /\ crule.kind # "Required" /\ cvalue = Null) =>
        /\ ~cres.panicked
        /\ ~cres.status
        /\ cres.err = Dispatch(crule, "name", WellShaped(crule)).err

Compares(kind, v, n) ==
    CASE kind \in {"Length", "Size"} -> v = n
      [] kind \in {"MaxLength", "MaxSize"} -> v <= n
      [] kind \in {"MinLength", "MinSize"} -> v >= n

(***************************************************************************)
(* C7: on a string whose length (String::len) is L, Length(n) passes iff   *)
(* L = n, MaxLength(n) iff L <= n, MinLength(n) iff L >= n; on an integer  *)
(* v, Size(n) passes iff v = n, MaxSize(n) iff v <= n, MinSize(n) iff      *)
(* v >= n.                                                                 *)
(***************************************************************************)
C7_LengthAndSizeComparisons ==
    /\ Called({"Length", "MaxLength", "MinLength"}, "str") =>
           ~cres.panicked /\ (cres.status <=> Compares(crule.kind, StrLen(cvalue.s), crule.n))
    /\ Called({"Size", "MaxSize", "MinSize"}, "int") =>
           ~cres.panicked /\ (cres.status <=> Compares(crule.kind, cvalue.n, crule.n))

\* MaxLength(2) passes on a one-character string, which MinLength(2) would not.
C7_Witness ==
    /\ Called({"MaxLength"}, "str")
    /\ crule.n = 2
    /\ cvalue.s = <<"a">>
    /\ cres.status

Measured == IF cvalue.t = "str" THEN StrLen(cvalue.s) ELSE cvalue.n

(***************************************************************************)
(* C8: LengthRange(min,max) passes on a string of length L iff             *)
(* min < L < max and SizeRange(min,max) on an integer v iff min < v < max; *)
(* a value equal to min or to max fails, and with min >= max every value   *)
(* fails, the rule being accepted as it is.                                *)
(***************************************************************************)
C8_RangesAreExclusive ==
    (Called({"LengthRange"}, "str") \/ Called({"SizeRange"}, "int")) =>
        /\ ~cres.panicked
        /\ cres.status <=> (crule.min < Measured /\ Measured < crule.max)
        /\ (Measured = crule.min \/ Measured = crule.max) => ~cres.status
        /\ crule.min >= crule.max => ~cres.status

\* A value equal to the upper end of a non-empty range fails.
C8_Witness ==
    /\ Called({"SizeRange"}, "int")
    /\ crule.min < crule.max
    /\ cvalue.n = crule.max
    /\ ~cres.status

\* char::is_alphabetic and char::is_numeric over the model's alphabet
is_letter(c) == c \in {"A", "a", "U+00E9"}
neither_letter_nor_digit(c) == ~is_letter(c) /\ ~is_digit(c)

(***************************************************************************)
(* C9: Password(minLen) passes on a string iff the string has length       *)
(* >= minLen, an uppercase letter, a lowercase letter, a digit, a          *)
(* character that is neither a letter nor a digit, and no whitespace; a    *)
(* string of letters and digits only, of any alphabet, never passes.       *)
(***************************************************************************)
C9_PasswordStrength ==
    Called({"Password"}, "str") =>
        /\ ~cres.panicked
        /\ cres.status <=>
               /\ StrLen(cvalue.s) >= crule.n
               /\ any_char(cvalue.s, is_uppercase)
               /\ any_char(cvalue.s, is_lowercase)
               /\ any_char(cvalue.s, is_digit)
               /\ any_char(cvalue.s, neither_letter_nor_digit)
               /\ ~any_char(cvalue.s, is_whitespace)

====
